---- MODULE Spec2Model ----
(***************************************************************************)
(* The three Streamlit programs of the repository (streamlit_app.py,       *)
(* streamlit_app_not_working.py and                                        *)
(* streamlit_app_not_working_with_external_copy_package.py): the           *)
(* GeminiInterface client with its two operations, and main(), run once    *)
(* per user interaction by each user session.                              *)
(*                                                                         *)
(* Text is a sequence of tokens: a character typed by the user is one      *)
(* token, and a literal of the program (a template segment, a tone name,   *)
(* a text the remote service returns) is one token.                        *)
(***************************************************************************)
EXTENDS Integers, Sequences, FiniteSets, TLC

VARIABLES
    variant,        \* which of the three programs is running
    env,            \* os.environ: the value of GEMINI_API_KEY ("" when unset)
    clients,        \* the GeminiInterface objects constructed so far
    chats,          \* the chat sessions (conversation handles) started so far
    session_state,  \* st.session_state's "gemini_interface", per slot (0: absent)
    pc,             \* per session: "idle", or "waiting" inside a remote call
    iface,          \* per session: the local gemini_interface (0: none)
    pending,        \* per session: the call in flight to the remote service
    result,         \* per session: what the last operation gave its caller
    ui              \* per session: what the last run of main() showed

vars == <<variant, env, clients, chats, session_state, pc, iface, pending, result, ui>>

\* Bounds of the model.
MaxClients == 2
MaxSent == 2

Sessions == {1, 2}
Variants == {"app", "not_working", "copy_package"}

\* Python's None, as a text no input and no response equals.
NoneVal == <<"<None>">>

(***************************************************************************)
(* Strings                                                                 *)
(***************************************************************************)
Whitespace == {" ", "\n"}

RECURSIVE LStrip(_)
LStrip(s) ==
    IF s = <<>> THEN s
    ELSE IF Head(s) \in Whitespace THEN LStrip(Tail(s)) ELSE s

RECURSIVE RStrip(_)
RStrip(s) ==
    IF s = <<>> THEN s
    ELSE IF s[Len(s)] \in Whitespace THEN RStrip(SubSeq(s, 1, Len(s) - 1)) ELSE s

\* str.strip()
Strip(s) == RStrip(LStrip(s))

\* needle in hay
Contains(hay, needle) ==
    \E i \in 0..(Len(hay) - Len(needle)) : SubSeq(hay, i + 1, i + Len(needle)) = needle

\* bool(x) of a text or None
Truthy(x) == x # NoneVal /\ x # <<>>

(***************************************************************************)
(* Inputs                                                                  *)
(***************************************************************************)
\* What a user may have typed into a text field.
FieldVals == {<<>>, <<" ">>, <<"a">>}
TextVals == {<<" ">>, <<"t">>}
CustomToneVals == {<<>>, <<" ">>, <<" ", "x", " ">>}

predefined_tones ==
    {<<"neutral">>, <<"fluent">>, <<"academic">>, <<"natural">>, <<"formal">>,
     <<"simple">>, <<"creative">>, <<"expand">>, <<"shorten">>}

\* The tones a user picks in the selectbox.
ToneChoices == {t \in predefined_tones : t = <<"formal">>}

RequiredKeys ==
    {"purpose", "recipient_info", "sender_name", "tone", "subject", "key_points"}

\* The placeholders of prompt_template, in the template's order.
TemplateKeys ==
    <<"purpose", "recipient_info", "sender_name", "tone", "subject", "key_points",
      "context", "actions", "attachments", "length">>

AllKeys == {TemplateKeys[i] : i \in 1..Len(TemplateKeys)}

\* What the remote service may answer to one send_message.
Response(reasons, text) ==
    [exc |-> "", candidates |-> [i \in 1..Len(reasons) |-> [finish_reason |-> reasons[i]]],
     text |-> text]
Raises(e) == [exc |-> e, candidates |-> <<>>, text |-> <<>>]

RemoteOutcomes ==
    {Response(<<"STOP">>, <<"Dear John">>),
     Response(<<"RECITATION">>, <<"partial">>),
     Raises("StopCandidateException"),
     Raises("ConnectionError")}

NoRemote == Raises("<no call>")

(***************************************************************************)
(* Prompt building                                                         *)
(***************************************************************************)
\* The label that precedes each placeholder in prompt_template.
TemplateLabel(k) ==
    CASE k = "purpose" -> "Compose an email with the following characteristics: **Purpose:**"
      [] k = "recipient_info" -> "**Recipient:**"
      [] k = "sender_name" -> "**Sender:**"
      [] k = "tone" -> "**Tone:**"
      [] k = "subject" -> "**Subject:**"
      [] k = "key_points" -> "**Key Points/Content:**"
      [] k = "context" -> "**Optional Considerations (when applicable):** **Context:**"
      [] k = "actions" -> "**Actions Required:**"
      [] k = "attachments" -> "**Attachments:**"
      [] k = "length" -> "**Desired Length:**"

TemplateClosing ==
    "Write the email including this information, with an appropriate greeting and closing, considering the desired tone."

\* (A template with one placeholder more, cc, than the code's.)
MissingKeysExtraPlaceholder(prompt_data) ==
    {k \in AllKeys \cup {"cc"} : k \notin DOMAIN prompt_data}

\* The placeholders of the template that prompt_data has no key for.
MissingKeys(prompt_data) ==
    {k \in AllKeys : k \notin DOMAIN prompt_data}

RECURSIVE FormatFrom(_, _)
FormatFrom(i, prompt_data) ==
    IF i > Len(TemplateKeys) THEN <<TemplateClosing>>
    ELSE <<TemplateLabel(TemplateKeys[i])>> \o prompt_data[TemplateKeys[i]]
             \o FormatFrom(i + 1, prompt_data)

\* prompt_template.format(**prompt_data): the text, or KeyError.
Format(prompt_data) ==
    IF MissingKeys(prompt_data) # {}
    THEN [ok |-> FALSE, text |-> <<>>]
    ELSE [ok |-> TRUE, text |-> FormatFrom(1, prompt_data)]

\* The f-string of paraphrase_text.
ParaphrasePrompt(text, tone) ==
    <<"Paraphrase the following text with a '">> \o tone
        \o <<"' tone and return it in Markdown format:\n\n">> \o text

\* The f-string of the external-copy variant's generate_email.
EmailPrompt(prompt) ==
    <<"Generate a professional email based on the following prompt:\n\n">> \o prompt

\* The system instructions of the not_working variant.
EmailSystemInstruction ==
    <<"You are an expert email writer. Create professional, concise, and well-structured emails.">>

ParaphraseSystemInstruction(tone) ==
    <<"You are an expert paraphraser. Paraphrase the given text in a ">> \o tone \o <<" tone.">>

\* The instruction an operation sends: the system message a new chat would be
\* started with, and the user message.
Instruction(op, arg, tone) ==
    CASE variant = "app" /\ op = "generate_email" ->
            [system |-> <<>>, message |-> Format(arg).text]
      [] variant = "copy_package" /\ op = "generate_email" ->
            [system |-> <<>>, message |-> EmailPrompt(arg)]
      [] variant = "not_working" /\ op = "generate_email" ->
            [system |-> EmailSystemInstruction, message |-> arg]
      [] variant = "not_working" /\ op = "paraphrase_text" ->
            [system |-> ParaphraseSystemInstruction(tone), message |-> arg]
      [] OTHER ->
            [system |-> <<>>, message |-> ParaphrasePrompt(arg, tone)]

\* Whether building the instruction raises (KeyError) before anything is sent.
BuildFails(op, arg) ==
    variant = "app" /\ op = "generate_email" /\ ~Format(arg).ok

(***************************************************************************)
(* The client                                                              *)
(***************************************************************************)
\* GeminiInterface.__init__
\* (A constructor that takes over the chat session started last instead of
\* setting chat_session to None.)
NewClientSharedChat(api_key, s) ==
    [api_key |-> api_key, chat_session |-> Len(chats), owner |-> s, sent |-> 0,
     started |-> 0]

\* sent and started count the messages sent on the client and the chats it started;
\* owner is the session that constructed it.
NewClient(api_key, s) ==
    [api_key |-> api_key, chat_session |-> 0, owner |-> s, sent |-> 0, started |-> 0]

\* The history a chat starts with: start_chat(history=[]).
StartHistory == <<>>

NewChat(c, system) ==
    [client |-> c, system |-> system, history |-> StartHistory, writers |-> {},
     live |-> TRUE]

\* (Every variant starting a chat on every call.)
NeedsNewChatAlways(client) == TRUE

\* Whether a call on a client starts a chat: every call in streamlit_app.py and the
\* external-copy variant, the first call only (chat_session is None) in not_working.

NeedsNewChat(client) ==
    IF variant = "not_working" THEN client.chat_session = 0 ELSE TRUE

\* The chat a call on client c of the heap cl is sent on, with the heap after
\* start_chat.
EnsureChat(cl, c, system) ==
    IF NeedsNewChat(cl[c])
    THEN [chats |-> Append(chats, NewChat(c, system)),
          clients |-> [cl EXCEPT
                          ![c].chat_session =
                              IF variant = "not_working" THEN Len(chats) + 1 ELSE @,
                          ![c].started = @ + 1],
          chat |-> Len(chats) + 1]
    ELSE [chats |-> chats, clients |-> cl, chat |-> cl[c].chat_session]

NoCall ==
    [op |-> "none", client |-> 0, chat |-> 0, arg |-> <<>>, tone |-> <<>>,
     system |-> <<>>, message |-> <<>>, sent_with |-> <<>>, first |-> FALSE]

\* arg is kept for a call that raised while building its instruction.
NoResult ==
    [op |-> "none", client |-> 0, arg |-> <<>>, remote |-> NoRemote, kind |-> "none",
     value |-> NoneVal, exc |-> ""]

\* The messages sent so far on the clients of the heap cl.
RECURSIVE TotalSent(_)
TotalSent(cl) ==
    IF cl = <<>> THEN 0 ELSE cl[Len(cl)].sent + TotalSent(SubSeq(cl, 1, Len(cl) - 1))

\* Whether the bounds leave room for one more message.
HasRoom(cl) == TotalSent(cl) < MaxSent

\* generate_email / paraphrase_text on client c of the heap cl, up to the remote
\* call: the instruction is built (which may raise), the chat is ensured, the
\* message is sent.
Invoke(s, cl, c, op, arg, tone) ==
    IF BuildFails(op, arg)
    THEN /\ result' = [result EXCEPT ![s] =
                [op |-> op, client |-> c, arg |-> arg, remote |-> NoRemote,
                 kind |-> "raise", value |-> NoneVal, exc |-> "KeyError"]]
         /\ clients' = cl
         /\ UNCHANGED <<chats, pending>>
    ELSE LET i == Instruction(op, arg, tone)
             e == EnsureChat(cl, c, i.system)
         IN  /\ HasRoom(cl)
             /\ chats' = [e.chats EXCEPT ![e.chat].writers = @ \cup {s}]
             /\ clients' = [e.clients EXCEPT ![c].sent = @ + 1]
             /\ pending' = [pending EXCEPT ![s] =
                    [op |-> op, client |-> c, chat |-> e.chat, arg |-> arg,
                     tone |-> tone, system |-> e.chats[e.chat].system,
                     message |-> i.message,
                     sent_with |-> e.chats[e.chat].history,
                     first |-> cl[c].sent = 0]]
             /\ result' = [result EXCEPT ![s] = NoResult]

\* response.candidates and response.candidates[0].finish_reason == "RECITATION"
IsRecitation(o) ==
    Len(o.candidates) > 0 /\ o.candidates[1].finish_reason = "RECITATION"

\* (An except clause that catches every exception.)
CatchesAny(e) == TRUE

\* The except clause of generate_email in streamlit_app.py.

Catches(e) == e = "StopCandidateException"

\* What the operation gives its caller once the remote service answered with o.
OpResult(op, o) ==
    IF variant = "app" /\ op = "generate_email"
    THEN IF o.exc # ""
         THEN IF Catches(o.exc)
              THEN [kind |-> "return", value |-> NoneVal, exc |-> ""]
              ELSE [kind |-> "raise", value |-> NoneVal, exc |-> o.exc]
         ELSE IF IsRecitation(o)
              THEN [kind |-> "return", value |-> NoneVal, exc |-> ""]
              ELSE [kind |-> "return", value |-> o.text, exc |-> ""]
    ELSE IF o.exc # ""
         THEN [kind |-> "raise", value |-> NoneVal, exc |-> o.exc]
         ELSE [kind |-> "return", value |-> o.text, exc |-> ""]

\* ChatSession.send_message returning: an answer is appended to the history with
\* the message; a chat held only by the finished call (every variant but
\* not_working) is gone with it.
ChatAfter(s, chat, message, o) ==
    IF variant # "not_working"
    THEN [chat EXCEPT !.history = <<>>, !.system = <<>>, !.live = FALSE]
    ELSE IF o.exc # "" THEN chat
    ELSE [chat EXCEPT !.history =
            @ \o <<[role |-> "user", text |-> message, session |-> s],
                   [role |-> "model", text |-> o.text, session |-> s]>>]

\* The remote service answers the call of s with o and the operation returns.
Complete(s, o) ==
    LET p == pending[s]
        r == OpResult(p.op, o)
    IN  /\ chats' = [chats EXCEPT ![p.chat] = ChatAfter(s, @, p.message, o)]
        /\ pending' = [pending EXCEPT ![s] = NoCall]
        /\ result' = [result EXCEPT ![s] =
                [op |-> p.op, client |-> p.client, arg |-> <<>>, remote |-> o,
                 kind |-> r.kind, value |-> r.value, exc |-> r.exc]]

(***************************************************************************)
(* main(): one run per user interaction, split at the remote call          *)
(***************************************************************************)
NoUi == [shown |-> "nothing", content |-> NoneVal, download |-> NoneVal]

Shows(what) == [shown |-> what, content |-> NoneVal, download |-> NoneVal]

\* (A main() without the check of the key.)
ApiKeyNeverMissing(api_key) == FALSE

\* if not api_key

ApiKeyMissing(api_key) == api_key = ""

\* (One slot for every session: the interface kept in a module global.)
StateSlotShared(s) == 1

\* Where a session's interface is kept: its own st.session_state.

StateSlot(s) == s

\* The interface a run of main() works with: constructed by every run, or, in
\* not_working, by the first run of the session and kept in st.session_state.
Acquire(s) ==
    IF variant = "not_working" /\ session_state[StateSlot(s)] # 0
    THEN [clients |-> clients, session_state |-> session_state,
          c |-> session_state[StateSlot(s)]]
    ELSE [clients |-> Append(clients, NewClient(env, s)),
          session_state |->
              IF variant = "not_working"
              THEN [session_state EXCEPT ![StateSlot(s)] = Len(clients) + 1]
              ELSE session_state,
          c |-> Len(clients) + 1]

CanAcquire(s) ==
    (variant = "not_working" /\ session_state[StateSlot(s)] # 0) \/ Len(clients) < MaxClients

\* The forms a user may submit to the email tab of streamlit_app.py: the six
\* required fields all filled, all empty, all blank, one alone filled, or one alone
\* left empty or blank; the optional fields left empty.
EmailForms ==
    {[k \in AllKeys |-> IF k \notin RequiredKeys THEN <<>>
                         ELSE IF k = odd THEN one ELSE rest] :
        odd \in RequiredKeys, one \in FieldVals, rest \in FieldVals}

EmailInputs == IF variant = "app" THEN EmailForms ELSE TextVals

\* The condition under which the Generate Email button calls generate_email.
GenerateGuard(input) ==
    IF variant = "app"
    THEN \E k \in RequiredKeys : Strip(input[k]) # <<>>
    ELSE Strip(input) # <<>>

\* selected_tone = custom_tone.strip() if custom_tone.strip() else tone
SelectedTone(tone, custom_tone) ==
    IF Strip(custom_tone) # <<>> THEN Strip(custom_tone) ELSE tone

\* What main() shows once the operation gave r.
Render(op, r) ==
    IF r.kind = "raise" THEN Shows("exception")
    ELSE IF variant = "app" /\ op = "generate_email" /\ ~Truthy(r.value)
         THEN Shows("error")
         ELSE [shown |-> "content", content |-> r.value, download |-> r.value]

\* GEMINI_API_KEY is absent or empty: st.error and return.
MainKeyMissing(s) ==
    /\ pc[s] = "idle"
    /\ ApiKeyMissing(env)
    /\ ui' = [ui EXCEPT ![s] = Shows("key_error")]
    /\ result' = [result EXCEPT ![s] = NoResult]
    /\ UNCHANGED <<variant, env, clients, chats, session_state, pc, iface, pending>>

\* A run in which no button was pressed.
MainNoButton(s) ==
    /\ pc[s] = "idle"
    /\ ~ApiKeyMissing(env)
    /\ CanAcquire(s)
    /\ clients' = Acquire(s).clients
    /\ session_state' = Acquire(s).session_state
    /\ ui' = [ui EXCEPT ![s] = NoUi]
    /\ result' = [result EXCEPT ![s] = NoResult]
    /\ UNCHANGED <<variant, env, chats, pc, iface, pending>>

\* A run in which an operation's button was pressed with its input.
MainCall(s, op, input, tone, guard) ==
    /\ pc[s] = "idle"
    /\ ~ApiKeyMissing(env)
    /\ CanAcquire(s)
    /\ session_state' = Acquire(s).session_state
    /\ IF guard
       THEN /\ Invoke(s, Acquire(s).clients, Acquire(s).c, op, input, tone)
            /\ pc' = [pc EXCEPT ![s] = IF BuildFails(op, input) THEN "idle" ELSE "waiting"]
            /\ iface' = [iface EXCEPT ![s] = IF BuildFails(op, input) THEN 0 ELSE Acquire(s).c]
            /\ ui' = [ui EXCEPT ![s] = IF BuildFails(op, input) THEN Shows("exception") ELSE NoUi]
       ELSE /\ clients' = Acquire(s).clients
            /\ ui' = [ui EXCEPT ![s] = Shows("warning")]
            /\ result' = [result EXCEPT ![s] = NoResult]
            /\ UNCHANGED <<chats, pc, iface, pending>>
    /\ UNCHANGED <<variant, env>>

\* The Generate Email button.
MainGenerate(s) ==
    \E input \in EmailInputs :
        MainCall(s, "generate_email", input, <<>>, GenerateGuard(input))

\* The Paraphrase Text button.
MainParaphrase(s) ==
    \E text \in TextVals, tone \in ToneChoices, custom_tone \in CustomToneVals :
        MainCall(s, "paraphrase_text", text, SelectedTone(tone, custom_tone),
                 Strip(text) # <<>>)

\* The remote service answers: the operation returns or raises, main() shows the
\* outcome and returns.
MainResume(s) ==
    \E o \in RemoteOutcomes :
        /\ pc[s] = "waiting"
        /\ Complete(s, o)
        /\ ui' = [ui EXCEPT ![s] = Render(pending[s].op, OpResult(pending[s].op, o))]
        /\ pc' = [pc EXCEPT ![s] = "idle"]
        /\ iface' = [iface EXCEPT ![s] = 0]
        /\ UNCHANGED <<variant, env, clients, session_state>>

\* The user opens the page anew: Streamlit gives the session an empty
\* st.session_state, so the next run constructs a new interface.
NewSession(s) ==
    /\ pc[s] = "idle"
    /\ variant = "not_working"
    /\ session_state[StateSlot(s)] # 0
    /\ session_state' = [session_state EXCEPT ![StateSlot(s)] = 0]
    /\ ui' = [ui EXCEPT ![s] = NoUi]
    /\ result' = [result EXCEPT ![s] = NoResult]
    /\ UNCHANGED <<variant, env, clients, chats, pc, iface, pending>>

Init ==
    /\ variant \in Variants
    /\ env \in {"", "k"}
    /\ clients = <<>>
    /\ chats = <<>>
    /\ session_state = [s \in Sessions |-> 0]
    /\ pc = [s \in Sessions |-> "idle"]
    /\ iface = [s \in Sessions |-> 0]
    /\ pending = [s \in Sessions |-> NoCall]
    /\ result = [s \in Sessions |-> NoResult]
    /\ ui = [s \in Sessions |-> NoUi]

Next ==
    \E s \in Sessions :
        \/ MainKeyMissing(s)
        \/ MainNoButton(s)
        \/ MainGenerate(s)
        \/ MainParaphrase(s)
        \/ MainResume(s)
        \/ NewSession(s)

Spec == Init /\ [][Next]_vars

(***************************************************************************)
(* The client on its own: a caller that constructs GeminiInterface objects *)
(* and calls the two operations directly, with the remote service stubbed. *)
(***************************************************************************)
\* The one thread of the caller.
Driver == CHOOSE s \in Sessions : \A t \in Sessions : s <= t

\* The key sets of the mappings a caller passes to generate_email of
\* streamlit_app.py: every key, every key but one, the required keys alone, none.
ArgKeySets ==
    {AllKeys, RequiredKeys, {}} \cup {AllKeys \ {k} : k \in AllKeys}

\* The arguments a caller passes to generate_email: a mapping in streamlit_app.py,
\* a prompt text elsewhere.
EmailArgs ==
    IF variant = "app"
    THEN {[k \in K |-> <<"a">>] : K \in ArgKeySets}
    ELSE {<<"p">>}

\* The texts and tones a caller passes to paraphrase_text.
ArgTexts == {<<"t">>}
ArgTones == {<<"formal">>, <<"x">>}

TestConstruct ==
    /\ pc[Driver] = "idle"
    /\ Len(clients) < MaxClients
    /\ clients' = Append(clients, NewClient("k", Driver))
    /\ iface' = [iface EXCEPT ![Driver] = Len(clients) + 1]
    /\ UNCHANGED <<variant, env, chats, session_state, pc, pending, result, ui>>

TestCall(op, arg, tone) ==
    /\ pc[Driver] = "idle"
    /\ iface[Driver] # 0
    /\ Invoke(Driver, clients, iface[Driver], op, arg, tone)
    /\ pc' = [pc EXCEPT ![Driver] = IF BuildFails(op, arg) THEN "idle" ELSE "waiting"]
    /\ UNCHANGED <<variant, env, session_state, iface, ui>>

TestGenerateEmail ==
    \E arg \in EmailArgs : TestCall("generate_email", arg, <<>>)

TestParaphraseText ==
    \E text \in ArgTexts, tone \in ArgTones :
        TestCall("paraphrase_text", text, tone)

TestReceive ==
    \E o \in RemoteOutcomes :
        /\ pc[Driver] = "waiting"
        /\ Complete(Driver, o)
        /\ pc' = [pc EXCEPT ![Driver] = "idle"]
        /\ UNCHANGED <<variant, env, clients, session_state, iface, ui>>

NextClient ==
    \/ TestConstruct
    \/ TestGenerateEmail
    \/ TestParaphraseText
    \/ TestReceive

SpecClient == Init /\ [][NextClient]_vars

(***************************************************************************)
(* Properties                                                              *)
(***************************************************************************)
Operations == {"generate_email", "paraphrase_text"}

\* The remote answer carries the content-policy rejection signal.
RejectionSignal(o) ==
    o.exc = "" /\ Len(o.candidates) >= 1 /\ o.candidates[1].finish_reason = "RECITATION"

\* The remote call raised something other than a policy rejection.
TransportFailure(o) ==
    o.exc \notin {"", NoRemote.exc, "StopCandidateException"}

\* C1: for both operations, an answer carrying the rejection signal gives the
\* caller the failure result (None): the operation neither raises nor returns the
\* rejected text.
C1_RejectionGivesFailureResult ==
    \A s \in Sessions :
        (result[s].op \in Operations /\ RejectionSignal(result[s].remote))
            => (result[s].kind = "return" /\ result[s].value = NoneVal)

\* C2: for both operations, an exception of the remote call other than a policy
\* rejection reaches the caller as that same exception: it is not swallowed, and
\* is not turned into None or into a text.
C2_TransportFailureReachesCaller ==
    \A s \in Sessions :
        (result[s].op \in Operations /\ TransportFailure(result[s].remote))
            => (result[s].kind = "raise" /\ result[s].exc = result[s].remote.exc)

C2_Witness ==
    /\ variant = "app"
    /\ result[Driver].op = "generate_email"
    /\ result[Driver].remote.exc = "ConnectionError"
    /\ result[Driver].kind = "raise"

\* C3: a run of main() whose remote call ended in a policy rejection or in a
\* failure ends by showing an error message: no exception leaves main() and the
\* failure is not rendered or offered for download as content.
C3_FailureShownAsError ==
    \A s \in Sessions :
        (/\ pc[s] = "idle"
         /\ result[s].op \in Operations
         /\ \/ RejectionSignal(result[s].remote)
            \/ result[s].remote.exc \notin {"", NoRemote.exc})
            => ui[s].shown = "error"

\* C4: with GEMINI_API_KEY absent or empty every run of main() reports the missing
\* key and constructs no GeminiInterface; a remote call is only ever in flight on a
\* client constructed with a non-empty key.
C4_NoCallWithoutCredential ==
    /\ env = "" =>
        /\ clients = <<>>
        /\ chats = <<>>
        /\ \A s \in Sessions :
            /\ pending[s].op = "none"
            /\ ui[s].shown \in {"nothing", "key_error"}
    /\ \A s \in Sessions :
        pending[s].op # "none" => clients[pending[s].client].api_key # ""

C4_Witness ==
    env = "" /\ ui[1].shown = "key_error" /\ ui[2].shown = "key_error"

\* C5 as stated: a client never starts a second conversation handle.
C5_OneHandlePerClient ==
    \A c \in DOMAIN clients : clients[c].started <= 1

\* C5 as amended: in streamlit_app_not_working.py the first message sent on a
\* client starts its handle and every later one is sent on that same handle; in
\* streamlit_app.py and the external-copy variant every message is sent on a handle
\* of its own, started empty for it.
C5_HandlePerVariant ==
    /\ \A c \in DOMAIN clients :
        IF variant = "not_working"
        THEN /\ clients[c].started = (IF clients[c].sent > 0 THEN 1 ELSE 0)
             /\ (clients[c].chat_session # 0) = (clients[c].sent > 0)
        ELSE /\ clients[c].started = clients[c].sent
             /\ clients[c].chat_session = 0
    /\ \A s \in Sessions :
        pending[s].op # "none" =>
            /\ chats[pending[s].chat].client = pending[s].client
            /\ IF variant = "not_working"
               THEN pending[s].chat = clients[pending[s].client].chat_session
               ELSE /\ pending[s].sent_with = <<>>
                    /\ pending[s].chat = Len(chats)

C5_Witness ==
    /\ pending[Driver].op # "none"
    /\ ~pending[Driver].first
    /\ clients[pending[Driver].client].sent = 2

\* C6: the first call on a newly constructed client is sent on a handle with an
\* empty history, whatever was exchanged on the handles of earlier clients.
C6_FreshHandleAfterReset ==
    \A s \in Sessions :
        (pending[s].op # "none" /\ pending[s].first)
            => /\ pending[s].sent_with = <<>>
               /\ chats[pending[s].chat].history = <<>>

C6_Witness ==
    \E s \in Sessions :
        /\ pending[s].op # "none"
        /\ pending[s].first
        /\ \E h \in DOMAIN chats :
            /\ chats[h].client # pending[s].client
            /\ clients[chats[h].client].owner = s
            /\ chats[h].history # <<>>

\* C7: under any interleaving of two sessions, a client is called only by the
\* session that constructed it, no handle is written by both sessions, and the
\* history a call is sent with holds only the calling session's own exchanges.
C7_NoCrossSessionSharing ==
    /\ \A h \in DOMAIN chats :
        /\ Cardinality(chats[h].writers) <= 1
        /\ \A i \in DOMAIN chats[h].history :
            chats[h].history[i].session = clients[chats[h].client].owner
    /\ \A s \in Sessions :
        pending[s].op # "none" =>
            /\ clients[pending[s].client].owner = s
            /\ chats[pending[s].chat].writers = {s}
            /\ \A i \in DOMAIN pending[s].sent_with : pending[s].sent_with[i].session = s

C7_Witness ==
    /\ variant = "not_working"
    /\ pending[1].op # "none"
    /\ pending[2].op # "none"
    /\ pending[1].client # pending[2].client
    /\ pending[1].chat # pending[2].chat
    /\ session_state[1] = pending[1].client
    /\ session_state[2] = pending[2].client

\* C8: the instruction a paraphrase call delivers to the remote service (the system
\* instruction of the handle it is sent on, and the message) contains the call's
\* tone.
C8_ToneDelivered ==
    \A s \in Sessions :
        pending[s].op = "paraphrase_text"
            => \/ Contains(pending[s].message, pending[s].tone)
               \/ Contains(pending[s].system, pending[s].tone)

\* C9 as stated: building the email instruction raises KeyError exactly when one
\* of the six required keys is absent from the mapping.
C9_FailsIffRequiredKeyAbsent ==
    variant = "app" =>
        \A s \in Sessions :
            /\ (result[s].op = "generate_email" /\ result[s].exc = "KeyError")
                  => ~(RequiredKeys \subseteq DOMAIN result[s].arg)
            /\ pending[s].op = "generate_email"
                  => RequiredKeys \subseteq DOMAIN pending[s].arg

\* C9 as amended: building the email instruction raises KeyError exactly when one
\* of the template's ten keys (the six required ones, context, actions,
\* attachments, length) is absent from the mapping; a failing build sends nothing.
C9_FailsIffTemplateKeyAbsent ==
    variant = "app" =>
        \A s \in Sessions :
            /\ (result[s].op = "generate_email" /\ result[s].exc = "KeyError")
                  => /\ ~(AllKeys \subseteq DOMAIN result[s].arg)
                     /\ result[s].remote = NoRemote
                     /\ pending[s].op = "none"
            /\ pending[s].op = "generate_email"
                  => AllKeys \subseteq DOMAIN pending[s].arg

C9_Witness ==
    /\ variant = "app"
    /\ result[Driver].op = "generate_email"
    /\ result[Driver].exc = "KeyError"
    /\ RequiredKeys \subseteq DOMAIN result[Driver].arg
    /\ chats # <<>>

\* C10: the Generate Email button calls generate_email only when each of the six
\* required fields is non-blank after stripping.
C10_CallOnlyWhenAllFieldsFilled ==
    variant = "app" =>
        \A s \in Sessions :
            pending[s].op = "generate_email"
                => \A k \in RequiredKeys : Strip(pending[s].arg[k]) # <<>>

====
